---- MODULE Spec2Model ----
(***************************************************************************)
(* terminal_color_builder: the color resolver (src/src/color.rs) and the   *)
(* segment builder (src/src/lib.rs).                                       *)
(*                                                                         *)
(* A Rust String is modelled as a sequence of one-character strings, so    *)
(* <<"3", "7">> is "37"; the escape byte 0x1b is the one character ESC.    *)
(* A Vec<String> is a sequence of such sequences.  A COLORS value is a     *)
(* record [tag, hex]: hex is the payload of COLORS::HEX and <<>> for the   *)
(* other variants.  A call that can panic evaluates to a record whose      *)
(* field panic is the panic message ("" when the call returns) and whose   *)
(* field val is the value returned.                                        *)
(***************************************************************************)
EXTENDS Integers, Sequences, FiniteSets, TLC

(* ------------------------------ bounds -------------------------------- *)

\* the builder's output holds at most MaxEntries vectors
MaxEntries == 3
\* the hex strings of SpecHex have at most MaxHexLen characters
MaxHexLen == 7

(* ------------------------------ values -------------------------------- *)

ESC == "ESC"

Ok(v) == [panic |-> "", val |-> v]

Panic(msg) == [panic |-> msg]

\* the unit variants of enum COLORS
Palette == {"Black", "Red", "Green", "Yellow", "Blue", "Magenta", "Cyan",
            "White", "Default"}

COLORS(tag) == [tag |-> tag, hex |-> <<>>]

HEX(hex) == [tag |-> "HEX", hex |-> hex]

None == COLORS("None")

(* --------------------------- src/src/color.rs -------------------------- *)

\* Vec<String>::join
RECURSIVE join(_, _)
join(m, sep) ==
    IF m = <<>> THEN <<>>
    ELSE IF Len(m) = 1 THEN m[1]
    ELSE m[1] \o sep \o join(Tail(m), sep)

\* Color::format
format(m) == <<ESC, "[">> \o join(m, <<";">>) \o <<"m">>

\* the decimal digits that format!("{}", u32) writes
DigitChar(d) ==
    CASE d = 0 -> "0" [] d = 1 -> "1" [] d = 2 -> "2" [] d = 3 -> "3"
      [] d = 4 -> "4" [] d = 5 -> "5" [] d = 6 -> "6" [] d = 7 -> "7"
      [] d = 8 -> "8" [] d = 9 -> "9"

RECURSIVE to_string(_)
to_string(n) ==
    IF n < 10 THEN <<DigitChar(n)>>
    ELSE to_string(n \div 10) \o <<DigitChar(n % 10)>>

\* str::to_uppercase on one character
to_uppercase(item) ==
    CASE item = "a" -> "A" [] item = "b" -> "B" [] item = "c" -> "C"
      [] item = "d" -> "D" [] item = "e" -> "E" [] item = "f" -> "F"
      [] item = "g" -> "G" [] item = "t" -> "T" [] item = "x" -> "X"
      [] OTHER -> item

\* HexMatch with a last arm that yields 0 instead of panicking
HexMatch_zero(str) ==
    CASE str = "A" -> 10 [] str = "B" -> 11 [] str = "C" -> 12
      [] str = "D" -> 13 [] str = "E" -> 14 [] str = "F" -> 15
      [] str = "1" -> 1 [] str = "2" -> 2 [] str = "3" -> 3
      [] str = "4" -> 4 [] str = "5" -> 5 [] str = "6" -> 6
      [] str = "7" -> 7 [] str = "8" -> 8 [] str = "9" -> 9
      [] OTHER -> 0

\* the match of string_to_hexdec; -1 stands for the arm that panics
HexMatch(str) ==
    CASE str = "A" -> 10 [] str = "B" -> 11 [] str = "C" -> 12
      [] str = "D" -> 13 [] str = "E" -> 14 [] str = "F" -> 15
      [] str = "1" -> 1 [] str = "2" -> 2 [] str = "3" -> 3
      [] str = "4" -> 4 [] str = "5" -> 5 [] str = "6" -> 6
      [] str = "7" -> 7 [] str = "8" -> 8 [] str = "9" -> 9
      [] str = "0" -> 0
      [] OTHER -> -1

\* hex.split("") with "" and "#" removed
hex_vec(hex) == SelectSeq(hex, LAMBDA x : x # "#")

\* return_vex that pads a vector of four or five items with "0"
return_vex_pad(hv) ==
    CASE Len(hv) = 3 -> <<hv[1], hv[1], hv[2], hv[2], hv[3], hv[3]>>
      [] Len(hv) = 6 -> hv
      [] Len(hv) = 5 -> Append(hv, "0")
      [] Len(hv) = 4 -> hv \o <<"0", "0">>
      [] OTHER -> <<>>

\* return_vex that repeats the three items instead of doubling each
return_vex_repeat(hv) ==
    CASE Len(hv) = 3 -> hv \o hv
      [] Len(hv) = 6 -> hv
      [] OTHER -> <<>>

\* the vector the length match builds; <<>> stands for the arm that panics
return_vex(hv) ==
    CASE Len(hv) = 3 -> <<hv[1], hv[1], hv[2], hv[2], hv[3], hv[3]>>
      [] Len(hv) = 6 -> hv
      [] OTHER -> <<>>

hex_u(rv) == [i \in 1..Len(rv) |-> HexMatch(to_uppercase(rv[i]))]

RECURSIVE pow(_, _)
pow(x, e) == IF e = 0 THEN 1 ELSE x * pow(x, e - 1)

\* result += u * x.pow(index), index counting from 0 at the first digit;
\* hu has six entries of at most 15, so the u32 sum stays below 2^24 and
\* never wraps
RECURSIVE hex_sum(_, _)
hex_sum(hu, index) ==
    IF index >= Len(hu) THEN 0
    ELSE hu[index + 1] * pow(16, index) + hex_sum(hu, index + 1)

\* Color::string_to_hexdec
string_to_hexdec(hex) ==
    LET summed(hu) ==
            IF \E i \in 1..Len(hu) : hu[i] = -1
            THEN Panic("Not a valid hex-value")
            ELSE Ok(hex_sum(hu, 0))
        matched(rv) ==
            IF rv = <<>> THEN Panic("Incorrect Hex Value")
            ELSE summed(hex_u(rv))
    IN  matched(return_vex(hex_vec(hex)))

\* Color::convert_hex_to_ansi
convert_hex_to_ansi(color) ==
    LET r == (color \div 65536) % 256
        g == (color \div 256) % 256
        b == color % 256
    IN  <<"8", ";", "2", ";">> \o to_string(r) \o <<";">> \o to_string(g)
            \o <<";">> \o to_string(b)

\* Color::parse_color
parse_color(color) ==
    CASE color.tag = "Black" -> Ok(<<"0">>)
      [] color.tag = "Red" -> Ok(<<"1">>)
      [] color.tag = "Green" -> Ok(<<"2">>)
      [] color.tag = "Yellow" -> Ok(<<"3">>)
      [] color.tag = "Blue" -> Ok(<<"4">>)
      [] color.tag = "Magenta" -> Ok(<<"5">>)
      [] color.tag = "Cyan" -> Ok(<<"6">>)
      [] color.tag = "White" -> Ok(<<"7">>)
      [] color.tag = "Default" -> Ok(<<"9">>)
      [] color.tag = "HEX" ->
            LET ansi(h) ==
                    IF h.panic # "" THEN h
                    ELSE Ok(convert_hex_to_ansi(h.val))
            IN  ansi(string_to_hexdec(color.hex))
      [] color.tag = "None" -> Ok(<<>>)

\* Color::new
new(fg, bg) == [fg |-> fg, bg |-> bg]

\* apply that pushes the token of a channel that is None too
apply_unfiltered(self) ==
    LET pushed(fg, bg) ==
            IF fg.panic # "" THEN fg
            ELSE IF bg.panic # "" THEN bg
            ELSE Ok(<< <<"3">> \o fg.val, <<"4">> \o bg.val >>)
    IN  pushed(parse_color(self.fg), parse_color(self.bg))

\* Color::apply
apply(self) ==
    LET push(digit, c) ==
            IF c # <<>> THEN << <<digit>> \o c >> ELSE <<>>
        pushed(fg, bg) ==
            IF fg.panic # "" THEN fg
            ELSE IF bg.panic # "" THEN bg
            ELSE Ok(push("3", fg.val) \o push("4", bg.val))
    IN  pushed(parse_color(self.fg), parse_color(self.bg))

\* Color::unapply
unapply == << <<"3", "9">>, <<"4", "9">> >>

\* Color::set
set(self) ==
    LET formatted(m) == IF m.panic # "" THEN m ELSE Ok(format(m.val))
    IN  formatted(apply(self))

\* Color::unset
unset == format(unapply)

\* Color::print
Color_print(self, message) ==
    LET printed(s) ==
            IF s.panic # "" THEN s ELSE Ok(s.val \o message \o unset)
    IN  printed(set(self))

(* ---------------------------- src/src/lib.rs --------------------------- *)

\* the marker "#text#" that text() pushes in front of the message
TextMark == <<"#", "t", "e", "x", "t", "#">>

\* print_loop that keeps the colors of a text for the texts after it
RECURSIVE print_loop_leak(_, _, _)
print_loop_leak(output, message, colors) ==
    IF output = <<>> THEN message
    ELSE LET v == Head(output)
             first == IF v = <<>> THEN <<>> ELSE v[1]
             text == IF Len(v) >= 2 THEN v[2] ELSE <<>>
         IN  IF first = TextMark
             THEN print_loop_leak(Tail(output),
                                  message \o format(colors) \o text, colors)
             ELSE print_loop_leak(Tail(output), message, colors \o v)

\* the loop of OutputFormatter::print: message holds the pieces pushed so
\* far, already joined by ""; colors holds the tokens collected since the
\* last text
RECURSIVE print_loop(_, _, _)
print_loop(output, message, colors) ==
    IF output = <<>> THEN message
    ELSE LET v == Head(output)
             first == IF v = <<>> THEN <<>> ELSE v[1]
             text == IF Len(v) >= 2 THEN v[2] ELSE <<>>
         IN  IF first = TextMark
             THEN print_loop(Tail(output),
                             message \o format(colors) \o text, <<>>)
             ELSE print_loop(Tail(output), message, colors \o v)

\* OutputFormatter::print that also emits the colors left after the last
\* text
OutputFormatter_print_flush(output) ==
    print_loop(Append(output, <<TextMark, <<>> >>), <<>>, <<>>)
        \o format(unapply)

\* OutputFormatter::print
OutputFormatter_print(output) ==
    print_loop(output, <<>>, <<>>) \o format(unapply)

\* colorize that puts the color of a background handle in the foreground
colorize_noswap(style, output, fg, bg) ==
    LET pushed(c) == IF c.panic # "" THEN c ELSE Ok(Append(output, c.val))
    IN  pushed(apply(new(fg, bg)))

\* OutputColor::colorize: the output of the formatter returned
colorize(style, output, fg, bg) ==
    LET pushed(c) == IF c.panic # "" THEN c ELSE Ok(Append(output, c.val))
    IN  pushed(CASE style = "FG" -> apply(new(fg, bg))
                 [] style = "BG" -> apply(new(bg, fg))
                 [] style = "Both" -> apply(new(fg, bg)))

\* OutputFormatter::text: the output of the formatter returned
text_push(output, message) == Append(output, <<TextMark, message>>)

(* ------------------------------- state --------------------------------- *)

\* obj:       the value the caller holds: "none" before any constructor,
\*            "OutputFormatter", "OutputColor" (the handle fg()/bg() give)
\*            or "Color"
\* output:    OutputFormatter.output (of the handle's formatter when the
\*            caller holds an OutputColor)
\* for_style: OutputColor.for_style, "" when no handle is held
\* color:     the Color struct held
\* call:      the last call made and its arguments; nth is 1 for a first
\*            print() and 2 for a print() that follows a print()
\* history:   the calls that pushed onto output, in order: the tokens each
\*            color call contributed, the message of each text commit
\* ret:       the String the last call returned, <<>> when it returned
\*            no String
\* sets:      the Vec<String> the last call returned, <<>> when it
\*            returned no Vec
\* panicked:  the message of the panic that ended the run, "" when none
VARIABLES obj, output, for_style, color, call, history, ret, sets, panicked

vars ==
    <<obj, output, for_style, color, call, history, ret, sets, panicked>>

Call(op, style, fg, bg, message, nth) ==
    [op |-> op, style |-> style, fg |-> fg, bg |-> bg, message |-> message,
     nth |-> nth]

(* ------------------------------- inputs -------------------------------- *)

Str_fff == <<"#", "f", "f", "f">>

Str_09f == <<"#", "0", "9", "f">>

Str_12g == <<"1", "2", "g">>

Str_12345 == <<"1", "2", "3", "4", "5">>

\* the messages given to text() and to Color::print
Texts == {<<>>, TextMark, <<"H", "i">>}

\* the strings given to hex()
HexArgs == {Str_09f, Str_12g, Str_12345}

\* the pairs given to custom()
CustomArgs ==
    {<<COLORS("White"), COLORS("Green")>>, <<None, COLORS("Default")>>,
     <<None, None>>, <<COLORS("Red"), HEX(Str_12g)>>}

\* the colors given to Color::new
ColorArgs ==
    {COLORS(t) : t \in Palette} \cup {None} \cup {HEX(h) : h \in HexArgs}

(* ------------------------------- actions ------------------------------- *)

Init ==
    /\ obj = "none"
    /\ output = <<>>
    /\ for_style = ""
    /\ color = new(None, None)
    /\ call = Call("", "", None, None, <<>>, 0)
    /\ history = <<>>
    /\ ret = <<>>
    /\ sets = <<>>
    /\ panicked = ""

\* OutputFormatter::new
CallNew ==
    /\ obj = "none"
    /\ panicked = ""
    /\ obj' = "OutputFormatter"
    /\ output' = <<>>
    /\ call' = Call("new", "", None, None, <<>>, 0)
    /\ UNCHANGED <<for_style, color, history, ret, sets, panicked>>

\* OutputFormatter::fg and OutputFormatter::bg
Context(style, op) ==
    /\ obj = "OutputFormatter"
    /\ panicked = ""
    /\ Len(output) < MaxEntries
    /\ obj' = "OutputColor"
    /\ for_style' = style
    /\ output' = output
    /\ call' = Call(op, style, None, None, <<>>, 0)
    /\ ret' = <<>>
    /\ UNCHANGED <<color, history, sets, panicked>>

CallFg == Context("FG", "fg")

CallBg == Context("BG", "bg")

\* the caller's state after colorize(fg, bg) ran on the handle held or, for
\* OutputFormatter::custom, on the handle it builds
Colorized(op, style, fg, bg) ==
    LET returned(c) ==
            IF c.panic # ""
            THEN /\ panicked' = c.panic
                 /\ UNCHANGED <<obj, output, for_style, history>>
            ELSE /\ obj' = "OutputFormatter"
                 /\ output' = c.val
                 /\ for_style' = ""
                 /\ panicked' = ""
                 /\ history' =
                        Append(history, [kind |-> "color",
                                         tokens |-> c.val[Len(c.val)],
                                         text |-> <<>>])
    IN  /\ panicked = ""
        /\ Len(output) < MaxEntries
        /\ call' = Call(op, style, fg, bg, <<>>, 0)
        /\ ret' = <<>>
        /\ returned(colorize(style, output, fg, bg))
        /\ UNCHANGED <<color, sets>>

\* OutputColor::black ... OutputColor::white
Named(tag) ==
    /\ obj = "OutputColor"
    /\ Colorized("named", for_style, COLORS(tag), None)

CallBlack == Named("Black")

CallRed == Named("Red")

CallGreen == Named("Green")

CallYellow == Named("Yellow")

CallBlue == Named("Blue")

CallMagenta == Named("Magenta")

CallCyan == Named("Cyan")

CallWhite == Named("White")

\* OutputColor::hex
CallHex(h) ==
    /\ obj = "OutputColor"
    /\ Colorized("hex", for_style, HEX(h), None)

\* OutputColor::custom
CallHandleCustom(fg, bg) ==
    /\ obj = "OutputColor"
    /\ Colorized("custom", for_style, fg, bg)

\* OutputFormatter::custom
CallCustom(fg, bg) ==
    /\ obj = "OutputFormatter"
    /\ Colorized("custom", "Both", fg, bg)

\* OutputFormatter::text and OutputFormatter::text_str
CallText(message) ==
    /\ obj = "OutputFormatter"
    /\ panicked = ""
    /\ Len(output) < MaxEntries
    /\ output' = text_push(output, message)
    /\ call' = Call("text", "", None, None, message, 0)
    /\ ret' = <<>>
    /\ history' =
           Append(history, [kind |-> "text", tokens |-> <<>>,
                            text |-> message])
    /\ UNCHANGED <<obj, for_style, color, sets, panicked>>

\* a print() that takes the vectors out of the formatter
CallPrintTake ==
    /\ obj = "OutputFormatter"
    /\ panicked = ""
    /\ ret' = OutputFormatter_print(output)
    /\ output' = <<>>
    /\ call' = Call("print", "", None, None, <<>>,
                    IF call.op = "print" THEN 2 ELSE 1)
    /\ UNCHANGED <<obj, for_style, color, history, sets, panicked>>

\* OutputFormatter::print, which borrows the formatter
CallPrint ==
    /\ obj = "OutputFormatter"
    /\ panicked = ""
    /\ ret' = OutputFormatter_print(output)
    /\ call' = Call("print", "", None, None, <<>>,
                    IF call.op = "print" THEN 2 ELSE 1)
    /\ UNCHANGED <<obj, output, for_style, color, history, sets, panicked>>

\* Color::new
CallColorNew(fg, bg) ==
    /\ obj = "none"
    /\ panicked = ""
    /\ obj' = "Color"
    /\ color' = new(fg, bg)
    /\ call' = Call("Color::new", "", fg, bg, <<>>, 0)
    /\ UNCHANGED <<output, for_style, history, ret, sets, panicked>>

\* Color::print
CallColorPrint(message) ==
    LET returned(r) ==
            IF r.panic # ""
            THEN panicked' = r.panic /\ ret' = <<>>
            ELSE panicked' = "" /\ ret' = r.val
    IN  /\ obj = "Color"
        /\ panicked = ""
        /\ call' = Call("Color::print", "", color.fg, color.bg, message, 0)
        /\ returned(Color_print(color, message))
        /\ UNCHANGED <<obj, output, for_style, color, history, sets>>

\* Color::apply
CallColorApply ==
    LET returned(r) ==
            IF r.panic # ""
            THEN panicked' = r.panic /\ sets' = <<>>
            ELSE panicked' = "" /\ sets' = r.val
    IN  /\ obj = "Color"
        /\ panicked = ""
        /\ call' = Call("Color::apply", "", color.fg, color.bg, <<>>, 0)
        /\ returned(apply(color))
        /\ UNCHANGED <<obj, output, for_style, color, history, ret>>

Next ==
    \/ CallNew
    \/ CallFg
    \/ CallBg
    \/ CallBlack
    \/ CallRed
    \/ CallGreen
    \/ CallYellow
    \/ CallBlue
    \/ CallMagenta
    \/ CallCyan
    \/ CallWhite
    \/ \E h \in HexArgs : CallHex(h)
    \/ \E p \in CustomArgs : CallHandleCustom(p[1], p[2])
    \/ \E p \in CustomArgs : CallCustom(p[1], p[2])
    \/ \E m \in Texts : CallText(m)
    \/ CallPrint
    \/ \E f \in ColorArgs, b \in ColorArgs : CallColorNew(f, b)
    \/ \E m \in Texts : CallColorPrint(m)
    \/ CallColorApply

Spec == Init /\ [][Next]_vars

(* ------------------- the hex parser on its own: SpecHex ---------------- *)

\* the characters the hex strings are drawn from: '#', a decimal, a
\* lower-case and an upper-case hex digit, and a character that is no hex
\* digit
HexAlphabet == {"#", "0", "a", "F", "g"}

\* hex strings of the documentation and tests, and strings that hold every
\* hex digit
HexExamples ==
    {<<"#", "c", "c", "3", "3", "f", "f">>, <<"#", "6", "6", "3", "3", "f", "f">>,
     <<"#", "f", "f", "6", "6", "3", "3">>, <<"#", "a", "b", "1", "3", "4", "6">>,
     Str_fff, Str_12g, Str_12345,
     <<"f", "f", "f", "f", "f", "f">>, <<"a", "b", "c">>,
     <<"a", "a", "b", "b", "c", "c">>, Str_09f,
     <<"0", "1", "2", "3", "4", "5">>, <<"6", "7", "8", "9", "a", "b">>,
     <<"c", "d", "e", "f", "A", "B">>, <<"C", "D", "E", "0", "0", "7">>,
     <<"1", "0", "0", "0", "0", "0">>, <<"0", "0", "0", "0", "0", "1">>,
     <<"#", "1", "2", "x">>, <<"1", "2", "3", "4", "5", "6", "7">>}

HexStrings ==
    HexExamples
        \cup UNION {[1..n -> HexAlphabet] : n \in 0..MaxHexLen}

\* a Color holding the hex string in one channel, just constructed
InitHex ==
    /\ obj = "Color"
    /\ output = <<>>
    /\ for_style = ""
    /\ \E h \in HexStrings :
           \/ color = new(HEX(h), None)
           \/ color = new(None, HEX(h))
    /\ call = Call("Color::new", "", color.fg, color.bg, <<>>, 0)
    /\ history = <<>>
    /\ ret = <<>>
    /\ sets = <<>>
    /\ panicked = ""

NextHex == CallColorApply

SpecHex == InitHex /\ [][NextHex]_vars

(* ------------------------ what the claims refer to --------------------- *)

\* ESC[39;49m
Reset == <<ESC, "[", "3", "9", ";", "4", "9", "m">>

\* the tokens of ts, in order, joined by ';'
RECURSIVE Joined(_)
Joined(ts) ==
    IF ts = <<>> THEN <<>>
    ELSE IF Len(ts) = 1 THEN ts[1]
    ELSE ts[1] \o <<";">> \o Joined(SubSeq(ts, 2, Len(ts)))

\* ESC[ + tokens + m
Escape(ts) == <<ESC, "[">> \o Joined(ts) \o <<"m">>

\* the segments of a history h: for each text commit, in commit order,
\* ESC[ + the tokens of the color calls since the previous text commit + m
\* + the text; pending holds the tokens since the previous text commit
RECURSIVE Segments(_, _)
Segments(h, pending) ==
    IF h = <<>> THEN <<>>
    ELSE IF h[1].kind = "text"
         THEN Escape(pending) \o h[1].text
                  \o Segments(SubSeq(h, 2, Len(h)), <<>>)
         ELSE Segments(SubSeq(h, 2, Len(h)), pending \o h[1].tokens)

\* the number of calls of h up to its last text commit
LastText(h) ==
    IF \E i \in 1..Len(h) : h[i].kind = "text"
    THEN CHOOSE i \in 1..Len(h) :
             /\ h[i].kind = "text"
             /\ \A j \in (i + 1)..Len(h) : h[j].kind # "text"
    ELSE 0

\* the digit of a palette color
Digit(tag) ==
    CASE tag = "Black" -> "0" [] tag = "Red" -> "1" [] tag = "Green" -> "2"
      [] tag = "Yellow" -> "3" [] tag = "Blue" -> "4"
      [] tag = "Magenta" -> "5" [] tag = "Cyan" -> "6"
      [] tag = "White" -> "7" [] tag = "Default" -> "9"

\* the tokens of a pair of palette colors or None: "3"+digit, then "4"+digit
PairTokens(fg, bg) ==
    (IF fg.tag = "None" THEN <<>> ELSE << <<"3", Digit(fg.tag)>> >>)
        \o (IF bg.tag = "None" THEN <<>> ELSE << <<"4", Digit(bg.tag)>> >>)

IsNamed(c) == c.tag \in Palette \cup {"None"}

\* the hex digits and their values
HexDigits ==
    {"0", "1", "2", "3", "4", "5", "6", "7", "8", "9", "a", "b", "c", "d",
     "e", "f", "A", "B", "C", "D", "E", "F"}

HexValue(ch) ==
    CASE ch = "0" -> 0 [] ch = "1" -> 1 [] ch = "2" -> 2 [] ch = "3" -> 3
      [] ch = "4" -> 4 [] ch = "5" -> 5 [] ch = "6" -> 6 [] ch = "7" -> 7
      [] ch = "8" -> 8 [] ch = "9" -> 9
      [] ch \in {"a", "A"} -> 10 [] ch \in {"b", "B"} -> 11
      [] ch \in {"c", "C"} -> 12 [] ch \in {"d", "D"} -> 13
      [] ch \in {"e", "E"} -> 14 [] ch \in {"f", "F"} -> 15

\* n in decimal, without padding
RECURSIVE Decimal(_)
Decimal(n) ==
    IF n >= 10 THEN Decimal(n \div 10) \o Decimal(n % 10)
    ELSE <<CHOOSE d \in {"0", "1", "2", "3", "4", "5", "6", "7", "8", "9"} :
               HexValue(d) = n>>

\* the string without its '#' characters
Stripped(h) == SelectSeq(h, LAMBDA ch : ch # "#")

AllHexDigits(h) == \A i \in 1..Len(h) : h[i] \in HexDigits

\* the string and the channel digit ("3" or "4") of the one HEX of a pair
HexOf(fg, bg) == IF fg.tag = "HEX" THEN fg.hex ELSE bg.hex

ChannelOf(fg, bg) == IF fg.tag = "HEX" THEN "3" ELSE "4"

\* whether s is a number of 0..255 in decimal, without padding
IsByte(s) ==
    /\ Len(s) \in 1..3
    /\ \A i \in 1..Len(s) : s[i] \in HexDigits /\ HexValue(s[i]) <= 9
    /\ Len(s) > 1 => s[1] # "0"
    /\ Len(s) = 3
          => 100 * HexValue(s[1]) + 10 * HexValue(s[2]) + HexValue(s[3])
                 <= 255

\* the ';'-separated fields of s
RECURSIVE Fields(_, _)
Fields(s, field) ==
    IF s = <<>> THEN <<field>>
    ELSE IF s[1] = ";"
         THEN <<field>> \o Fields(SubSeq(s, 2, Len(s)), <<>>)
         ELSE Fields(SubSeq(s, 2, Len(s)), Append(field, s[1]))

\* whether t is channel + "8;2;R;G;B" for numbers R, G, B of 0..255
IsRgbToken(channel, t) ==
    LET fs == Fields(t, <<>>)
    IN  /\ Len(fs) = 5
        /\ fs[1] = <<channel, "8">>
        /\ fs[2] = <<"2">>
        /\ IsByte(fs[3]) /\ IsByte(fs[4]) /\ IsByte(fs[5])

\* whether a color is a well-formed one: no HEX, or a HEX of 3 or 6 hex
\* digits once its '#' are removed
WellFormed(c) ==
    c.tag = "HEX"
        => /\ Len(Stripped(c.hex)) \in {3, 6}
           /\ AllHexDigits(Stripped(c.hex))

\* "38;2;R;G;B" or "48;2;R;G;B"
RgbToken(channel, r, g, b) ==
    <<channel, "8", ";", "2", ";">> \o Decimal(r) \o <<";">> \o Decimal(g)
        \o <<";">> \o Decimal(b)

(* -------------------------------- claims ------------------------------- *)

\* C1: print() returns, for each text commit in commit order, ESC[ + the
\* tokens of the color calls made since the previous text commit, joined by
\* ';', + m + the text, followed by exactly one ESC[39;49m; the tokens of
\* one segment never appear in the next.
C1_PrintRendersSegments ==
    call.op = "print" => ret = Segments(history, <<>>) \o Reset

\* two committed segments, the first with tokens and the second without,
\* the second text being the literal "#text#", then print()
C1_Witness ==
    /\ call.op = "print"
    /\ Len(history) = 3
    /\ history[1].kind = "color" /\ history[1].tokens # <<>>
    /\ history[2].kind = "text" /\ history[2].text = <<>>
    /\ history[3].kind = "text" /\ history[3].text = TextMark

\* C2: for fg and bg among the nine palette colors and None,
\* Color::new(fg, bg).print(text) is ESC[ + "3"+fgDigit (unless fg is None)
\* and "4"+bgDigit (unless bg is None) joined by ';' + m + text + ESC[39;49m.
C2_ColorPrintPalette ==
    (call.op = "Color::print" /\ IsNamed(call.fg) /\ IsNamed(call.bg))
        => /\ panicked = ""
           /\ ret = Escape(PairTokens(call.fg, call.bg)) \o call.message
                        \o Reset

\* Color::new(None, White).print("Hi") returned ESC[47mHi ESC[39;49m
C2_Witness ==
    /\ call.op = "Color::print"
    /\ call.fg = None /\ call.bg = COLORS("White")
    /\ ret = <<ESC, "[", "4", "7", "m", "H", "i">> \o Reset

\* C8: the color calls made after the last text commit do not appear in the
\* output: print() returns what it returns for the history cut after its
\* last text commit.
C8_DanglingColorsDropped ==
    call.op = "print"
        => ret = OutputFormatter_print(SubSeq(output, 1, LastText(history)))

\* print() after a text commit followed by a color call that gave tokens
C8_Witness ==
    /\ call.op = "print"
    /\ Len(history) = 3
    /\ history[2].kind = "text"
    /\ history[3].kind = "color" /\ history[3].tokens # <<>>

\* C10: print() leaves the builder as it was, and a print() that follows
\* a print() returns the same string.
C10_PrintLeavesBuilder ==
    [][call'.op = "print"
          => /\ output' = output
             /\ obj' = obj
             /\ call.op = "print" => ret' = ret]_vars

\* a second print() in a row on a builder with a committed segment
C10_Witness ==
    /\ call.op = "print" /\ call.nth = 2
    /\ Len(history) = 2
    /\ history[1].kind = "color" /\ history[2].kind = "text"

\* C3: the six digits d1..d6 are read most significant first: the token is
\* "38;2;R;G;B" (foreground) or "48;2;R;G;B" (background) with
\* R = 16*d1+d2, G = 16*d3+d4, B = 16*d5+d6.
C3_HexBigEndian ==
    LET d == Stripped(HexOf(call.fg, call.bg))
    IN  (call.op = "Color::apply" /\ Len(d) = 6 /\ AllHexDigits(d))
            => sets = << RgbToken(ChannelOf(call.fg, call.bg),
                                  16 * HexValue(d[1]) + HexValue(d[2]),
                                  16 * HexValue(d[3]) + HexValue(d[4]),
                                  16 * HexValue(d[5]) + HexValue(d[6])) >>

\* C7: a hex string that, without its '#', has not 3 or 6 characters fails
\* as InvalidHexLength (the panic "Incorrect Hex Value"); otherwise one
\* with a character outside [0-9A-Fa-f] fails as InvalidHexDigit (the panic
\* "Not a valid hex-value"); neither yields a token, and only a string of 3
\* or 6 hex digits resolves to a color.
C7_MalformedHexFails ==
    LET d == Stripped(HexOf(call.fg, call.bg))
    IN  call.op = "Color::apply"
            => /\ Len(d) \notin {3, 6}
                    => panicked = "Incorrect Hex Value" /\ sets = <<>>
               /\ (Len(d) \in {3, 6} /\ ~AllHexDigits(d))
                    => panicked = "Not a valid hex-value" /\ sets = <<>>
               /\ panicked = ""
                    => Len(d) \in {3, 6} /\ AllHexDigits(d) /\ Len(sets) = 1

\* apply() on a pair holding "#ag#F": three characters without the '#',
\* one of them no hex digit
C7_Witness ==
    /\ call.op = "Color::apply"
    /\ HexOf(call.fg, call.bg) = <<"#", "a", "g", "#", "F">>
    /\ panicked = "Not a valid hex-value"

\* C9: a three-digit hex string d1d2d3, in either case, with or without
\* '#', resolves to the color of d1d1d2d2d3d3; "#fff" and "ffffff" resolve
\* to (255,255,255).
C9_HexShorthand ==
    LET d == Stripped(HexOf(call.fg, call.bg))
        long == <<d[1], d[1], d[2], d[2], d[3], d[3]>>
    IN  /\ (call.op = "Color::apply" /\ Len(d) = 3 /\ AllHexDigits(d))
               => /\ panicked = ""
                  /\ call.fg.tag = "HEX"
                        => Ok(sets) = apply(new(HEX(long), None))
                  /\ call.bg.tag = "HEX"
                        => Ok(sets) = apply(new(None, HEX(long)))
        /\ (call.op = "Color::apply"
                /\ HexOf(call.fg, call.bg)
                       \in {Str_fff, <<"f", "f", "f", "f", "f", "f">>})
               => sets = << RgbToken(ChannelOf(call.fg, call.bg),
                                     255, 255, 255) >>

\* apply() on a pair whose foreground is the hex string "#aF#a"
C9_Witness ==
    /\ call.op = "Color::apply"
    /\ call.fg = HEX(<<"#", "a", "F", "#", "a">>)
    /\ panicked = ""
    /\ Len(sets) = 1

\* C4: custom(fg, bg) appends the foreground token of fg followed by the
\* background token of bg, whether it is called on the builder, on the
\* handle of fg() or on the handle of bg().
C4_CustomKeepsChannels ==
    (call.op = "custom" /\ panicked = "" /\ IsNamed(call.fg)
        /\ IsNamed(call.bg))
        => output[Len(output)] = PairTokens(call.fg, call.bg)

C6_MalformedHexIsErrorValue ==
    /\ panicked = ""
    /\ call.op = "Color::new" => WellFormed(call.fg) /\ WellFormed(call.bg)

\* C6 as amended: the builder call hex(...) or custom(...) that is given a
\* malformed hex panics, and the builder is then what it was before the
\* call; Color::new accepts a malformed hex, and the print() or apply() of
\* the pair panics.
C6_MalformedHexPanics ==
    [][/\ (call'.op \in {"hex", "custom"}
             /\ ~(WellFormed(call'.fg) /\ WellFormed(call'.bg)))
          => /\ panicked' # ""
             /\ output' = output /\ history' = history
             /\ obj' = obj /\ for_style' = for_style
       /\ call'.op = "Color::new" => panicked' = ""
       /\ (call'.op \in {"Color::print", "Color::apply"}
             /\ ~(WellFormed(call'.fg) /\ WellFormed(call'.bg)))
          => panicked' # "" /\ ret' = <<>> /\ sets' = <<>>
       /\ panicked' # ""
          => ~(WellFormed(call'.fg) /\ WellFormed(call'.bg))]_vars

\* hex("12345") on the handle of bg(), after a committed segment, panicked
C6_Witness ==
    /\ call.op = "hex" /\ call.style = "BG"
    /\ call.fg = HEX(Str_12345)
    /\ panicked = "Incorrect Hex Value"
    /\ Len(history) = 2

====
